---- MODULE Spec2Model ----
(***************************************************************************)
(* array_manipulation: ArrayAdd (append, append_back, concat, concat_back) *)
(* and ArrayRemove (truncate_start, truncate_end) on [T; N].               *)
(*                                                                         *)
(* An element instance is a number of Elems.  An array is a sequence of    *)
(* element instances; a buffer slot that was never written holds Uninit.   *)
(* drops[e] counts the invocations of the finalizer (drop glue) of e.      *)
(* The element type T of a run is one of three categories:                 *)
(*   "copy"  T: Copy (no drop glue),                                       *)
(*   "drop"  T implements Drop itself (Vec<_>, Box<_>, ...),               *)
(*   "glue"  T has drop glue but no Drop impl of its own (String, a tuple  *)
(*           or struct owning a Vec, ...).                                 *)
(* scrubs tells whether what is read from the storage of an element of     *)
(* type T after its finalizer ran differs from what it held before:        *)
(* Drop::drop takes &mut self and may overwrite it (self.0.take()), or the *)
(* element owns memory that the finalizer frees, and reading it afterwards *)
(* is a use after free.                                                    *)
(***************************************************************************)
EXTENDS Integers, Sequences, FiniteSets, TLC

VARIABLES cat, scrubs, live, drops, created, nops, last, prev, status

vars == <<cat, scrubs, live, drops, created, nops, last, prev, status>>

\* Bounds of the model.
MaxElems == 3
MaxLive == 2
MaxOps == 2

Elems == 1..MaxElems
Uninit == 0
Categories == {"copy", "drop", "glue"}

\* ------------------------------------------------------------ element type

\* T: Copy selects the specialized ArrayAdd impl.
implements_Copy(c) == c = "copy"

\* T: Drop selects the specialized ArrayRemove impl; the bound holds only for
\* a type with its own Drop impl.
implements_Drop(c) == c = "drop"

\* core::mem::needs_drop::<T>(): the type has drop glue.
needs_drop(c) == c # "copy"

\* ------------------------------------------------------------ core primitives

\* MaybeUninit::<[T; n]>::uninit()
MaybeUninit(n) == [i \in 1..n |-> Uninit]

\* Faulty variant: the destination pointer is not offset (.add(off) is lost).
copy_nonoverlapping_mut(src, buf, off) ==
    [i \in 1..Len(buf) |-> IF i <= Len(src) THEN src[i] ELSE buf[i]]

\* copy_nonoverlapping(&raw const src, result.as_mut_ptr().cast::<T>().add(off).cast(), 1)
copy_nonoverlapping(src, buf, off) ==
    [i \in 1..Len(buf) |->
        IF off < i /\ i <= off + Len(src) THEN src[i - off] ELSE buf[i]]

\* *result.as_mut_ptr().cast::<T>().add(off).cast() = src
write(src, buf, off) ==
    [i \in 1..Len(buf) |->
        IF off < i /\ i <= off + Len(src) THEN src[i - off] ELSE buf[i]]

\* result.assume_init()
assume_init(buf) == buf

\* read((&raw const self).cast::<T>().add(off).cast()) as [T; n]
read(src, off, n) == [i \in 1..n |-> src[off + i]]

\* transmute_copy::<[T; N], [T; n]>(&self): the first n elements of src
transmute_copy(src, n) == [i \in 1..n |-> src[i]]

\* drop_in_place(&raw mut arr[lo..hi]): one finalizer call per element of the slice
drop_in_place(d, arr, lo, hi) ==
    [e \in Elems |-> d[e] + Cardinality({i \in (lo + 1)..hi : arr[i] = e})]

\* What a reader of arr sees when the finalizer counts are d: each element
\* instance, and whether its storage still holds what it held when built.
contents(arr, d) ==
    [k \in 1..Len(arr) |->
        <<arr[k], IF scrubs /\ d[arr[k]] > 0 THEN "finalized" ELSE "intact">>]

\* Faulty variant: the forget call is missing, x stays an owned local.
forget_mut(owned, x) == owned

\* forget(x): x is no longer an owned local, its destructor never runs
forget(owned, x) == owned \ {x}

\* the drop glue of a whole array [T; N]
drop_array(d, arr) ==
    IF needs_drop(cat) THEN drop_in_place(d, arr, 0, Len(arr)) ELSE d

\* End of the function body: every local still owned is dropped.
scope_end(d, self, arg, owned) ==
    LET d1 == IF "self" \in owned THEN drop_array(d, self) ELSE d
    IN  IF "arg" \in owned THEN drop_array(d1, arg) ELSE d1

\* Finalizing an element a second time is undefined behaviour for a type
\* whose finalizer releases a resource (a double free): the run may go on as
\* if nothing happened, or the process may die inside that finalizer call.
\* The positions of arr[lo..hi] whose element was finalized before:
Refinalized(d, arr, lo, hi) == {k \in (lo + 1)..hi : d[arr[k]] >= 1}

Least(S) == CHOOSE k \in S : \A m \in S : k <= m

\* drop_in_place(&raw mut arr[lo..hi]) that dies in its first second
\* finalization: the elements before it are finalized, the ones after are not.
drop_in_place_abort(d, arr, lo, hi) ==
    drop_in_place(d, arr, lo, Least(Refinalized(d, arr, lo, hi)))

\* ------------------------------------------------------------ ArrayAdd, default bodies

concat_default(self, array, d) ==
    LET N == Len(self)
        L == Len(array)
        r0 == MaybeUninit(N + L)
        r1 == copy_nonoverlapping(self, r0, 0)
        r2 == copy_nonoverlapping(array, r1, N)
        o1 == forget({"self", "arg"}, "self")
        o2 == forget(o1, "arg")
    IN  [result |-> assume_init(r2), drops |-> scope_end(d, self, array, o2)]

concat_back_default(self, array, d) ==
    LET N == Len(self)
        L == Len(array)
        r0 == MaybeUninit(N + L)
        r1 == copy_nonoverlapping(array, r0, 0)
        r2 == copy_nonoverlapping(self, r1, L)
        o1 == forget({"self", "arg"}, "self")
        o2 == forget(o1, "arg")
    IN  [result |-> assume_init(r2), drops |-> scope_end(d, self, array, o2)]

append_default(self, e, d) ==
    LET N == Len(self)
        r0 == MaybeUninit(N + 1)
        r1 == copy_nonoverlapping(self, r0, 0)
        r2 == copy_nonoverlapping(<<e>>, r1, N)
        o1 == forget({"self", "arg"}, "self")
        o2 == forget(o1, "arg")
    IN  [result |-> assume_init(r2), drops |-> scope_end(d, self, <<e>>, o2)]

append_back_default(self, e, d) ==
    LET N == Len(self)
        r0 == MaybeUninit(N + 1)
        r1 == copy_nonoverlapping(<<e>>, r0, 0)
        r2 == copy_nonoverlapping(self, r1, 1)
        o1 == forget({"self", "arg"}, "self")
        o2 == forget(o1, "arg")
    IN  [result |-> assume_init(r2), drops |-> scope_end(d, self, <<e>>, o2)]

\* ------------------------------------------------------------ ArrayAdd, T: Copy bodies
\* An assignment moves its right-hand side into the place; a local that was
\* only copied from stays owned until the end of the body.

concat_copy(self, array, d) ==
    LET N == Len(self)
        L == Len(array)
        r0 == MaybeUninit(N + L)
        r1 == write(self, r0, 0)
        r2 == write(array, r1, N)
    IN  [result |-> assume_init(r2), drops |-> scope_end(d, self, array, {})]

concat_back_copy(self, array, d) ==
    LET N == Len(self)
        L == Len(array)
        r0 == MaybeUninit(N + L)
        r1 == write(array, r0, 0)
        r2 == write(self, r1, L)
    IN  [result |-> assume_init(r2), drops |-> scope_end(d, self, array, {})]

append_copy(self, e, d) ==
    LET N == Len(self)
        r0 == MaybeUninit(N + 1)
        r1 == copy_nonoverlapping(self, r0, 0)
        r2 == write(<<e>>, r1, N)
    IN  [result |-> assume_init(r2), drops |-> scope_end(d, self, <<e>>, {"self"})]

append_back_copy(self, e, d) ==
    LET N == Len(self)
        r0 == MaybeUninit(N + 1)
        r1 == write(<<e>>, r0, 0)
        r2 == copy_nonoverlapping(self, r1, 1)
    IN  [result |-> assume_init(r2), drops |-> scope_end(d, self, <<e>>, {"self"})]

\* ------------------------------------------------------------ ArrayRemove, default bodies

truncate_start_default(self, L, d) ==
    LET N == Len(self)
        result == read(self, L, N - L)
        o1 == forget({"self"}, "self")
    IN  [result |-> result, drops |-> scope_end(d, self, <<>>, o1)]

truncate_end_default(self, L, d) ==
    LET N == Len(self)
        result == read(self, 0, N - L)
        o1 == forget({"self"}, "self")
    IN  [result |-> result, drops |-> scope_end(d, self, <<>>, o1)]

\* ------------------------------------------------------------ ArrayRemove, T: Drop bodies

\* &raw mut self[..L] and &raw mut self[L..], as [lo, hi) index ranges
truncate_start_slice(self, L) == [lo |-> 0, hi |-> L]

truncate_end_slice(self, L) == [lo |-> L, hi |-> Len(self)]

truncate_start_drop(self, L, d) ==
    LET N == Len(self)
        s == truncate_start_slice(self, L)
        d1 == drop_in_place(d, self, s.lo, s.hi)
        result == read(self, L, N - L)
        o1 == forget({"self"}, "self")
    IN  [result |-> result, drops |-> scope_end(d1, self, <<>>, o1)]

truncate_end_drop(self, L, d) ==
    LET N == Len(self)
        s == truncate_end_slice(self, L)
        d1 == drop_in_place(d, self, s.lo, s.hi)
        result == transmute_copy(self, N - L)
        o1 == forget({"self"}, "self")
    IN  [result |-> result, drops |-> scope_end(d1, self, <<>>, o1)]

\* ------------------------------------------------------------ a finalizer that panics
\* drop_in_place(&raw mut self[lo..hi]) when the finalizer of self[p] panics
\* (lo <= p < hi, indices from 0): the slice's drop glue still finalizes the
\* rest of the slice while unwinding.  The panic then leaves the body before
\* forget(self) is reached, so self is still an owned local and is dropped as
\* a whole.  again: the same finalizer panics on its second invocation too,
\* which happens during unwinding and aborts the process at that element.
truncate_drop_unwind(self, lo, hi, p, again, d) ==
    LET d1 == drop_in_place(d, self, lo, hi)
        d2 == IF again THEN drop_in_place(d1, self, 0, p + 1)
                       ELSE scope_end(d1, self, <<>>, {"self"})
    IN  [drops |-> d2, aborted |-> again]

truncate_start_drop_unwind(self, L, p, again, d) ==
    LET s == truncate_start_slice(self, L)
    IN  truncate_drop_unwind(self, s.lo, s.hi, p, again, d)

truncate_end_drop_unwind(self, L, p, again, d) ==
    LET s == truncate_end_slice(self, L)
    IN  truncate_drop_unwind(self, s.lo, s.hi, p, again, d)

\* ------------------------------------------------------------ impl selection

ComposeOps == {"append", "append_back", "concat", "concat_back"}
TruncateOps == {"truncate_start", "truncate_end"}

\* impl<T> ArrayAdd for [T; N] (default) / impl<T: Copy> ArrayAdd for [T; N]
ArrayAdd(op, self, arg, d) ==
    IF implements_Copy(cat)
    THEN CASE op = "concat" -> concat_copy(self, arg, d)
           [] op = "concat_back" -> concat_back_copy(self, arg, d)
           [] op = "append" -> append_copy(self, arg[1], d)
           [] op = "append_back" -> append_back_copy(self, arg[1], d)
    ELSE CASE op = "concat" -> concat_default(self, arg, d)
           [] op = "concat_back" -> concat_back_default(self, arg, d)
           [] op = "append" -> append_default(self, arg[1], d)
           [] op = "append_back" -> append_back_default(self, arg[1], d)

\* The path a truncate call of element category c takes.
RemovePath(c) == IF implements_Drop(c) THEN "elementwise" ELSE "bulk"

\* impl<T> ArrayRemove for [T; N] (default) / impl<T: Drop> ArrayRemove for [T; N]
ArrayRemove(op, self, L, d) ==
    IF RemovePath(cat) = "elementwise"
    THEN CASE op = "truncate_start" -> truncate_start_drop(self, L, d)
           [] op = "truncate_end" -> truncate_end_drop(self, L, d)
    ELSE CASE op = "truncate_start" -> truncate_start_default(self, L, d)
           [] op = "truncate_end" -> truncate_end_default(self, L, d)

\* ------------------------------------------------------------ the host program

NoDrops == [e \in Elems |-> 0]

NoCall ==
    [op |-> "none", self |-> <<>>, arg |-> <<>>, L |-> 0, result |-> <<>>,
     before |-> NoDrops, path |-> "none"]

\* live without the bindings at the positions of S
Without(S) ==
    LET keep == {i \in 1..Len(live) : i \notin S}
        RECURSIVE pick(_, _)
        pick(i, acc) ==
            IF i > Len(live) THEN acc
            ELSE pick(i + 1, IF i \in keep THEN Append(acc, live[i]) ELSE acc)
    IN  pick(1, <<>>)

Init ==
    /\ cat \in Categories
    /\ scrubs \in (IF needs_drop(cat) THEN BOOLEAN ELSE {FALSE})
    /\ live = <<>>
    /\ drops = NoDrops
    /\ created = 0
    /\ nops = 0
    /\ last = NoCall
    /\ prev = NoCall
    /\ status = "running"

\* let array = [e1, ..., en]; with n fresh element instances
NewArray(n) ==
    /\ status = "running"
    /\ Len(live) < MaxLive
    /\ created + n <= MaxElems
    /\ live' = Append(live, [i \in 1..n |-> created + i])
    /\ created' = created + n
    /\ last' = NoCall
    /\ prev' = NoCall
    /\ UNCHANGED <<cat, scrubs, drops, nops, status>>

\* live[i].concat(live[j]) or live[i].concat_back(live[j])
Concat(op, i, j) ==
    /\ status = "running"
    /\ nops < MaxOps
    /\ i # j
    /\ LET r == ArrayAdd(op, live[i], live[j], drops)
       IN  /\ live' = Append(Without({i, j}), r.result)
           /\ drops' = r.drops
           /\ last' = [op |-> op, self |-> live[i], arg |-> live[j], L |-> Len(live[j]),
                       result |-> r.result, before |-> drops, path |-> "none"]
    /\ prev' = NoCall
    /\ nops' = nops + 1
    /\ UNCHANGED <<cat, scrubs, created, status>>

\* live[i].append(e) or live[i].append_back(e) with a fresh element instance e
AppendElem(op, i) ==
    /\ status = "running"
    /\ nops < MaxOps
    /\ created < MaxElems
    /\ LET e == created + 1
           r == ArrayAdd(op, live[i], <<e>>, drops)
       IN  /\ live' = Append(Without({i}), r.result)
           /\ drops' = r.drops
           /\ last' = [op |-> op, self |-> live[i], arg |-> <<e>>, L |-> 1,
                       result |-> r.result, before |-> drops, path |-> "none"]
    /\ created' = created + 1
    /\ prev' = NoCall
    /\ nops' = nops + 1
    /\ UNCHANGED <<cat, scrubs, status>>

\* live[i].truncate_start::<L>() or live[i].truncate_end::<L>()
Truncate(op, i, L) ==
    /\ status = "running"
    /\ nops < MaxOps
    /\ LET r == ArrayRemove(op, live[i], L, drops)
       IN  /\ live' = Append(Without({i}), r.result)
           /\ drops' = r.drops
           /\ last' = [op |-> op, self |-> live[i], arg |-> <<>>, L |-> L,
                       result |-> r.result, before |-> drops, path |-> RemovePath(cat)]
    /\ prev' = IF last.op = "concat" /\ i = Len(live) THEN last ELSE NoCall
    /\ nops' = nops + 1
    /\ UNCHANGED <<cat, scrubs, created, status>>

\* live[i] goes out of scope
ScopeExit(i) ==
    /\ status = "running"
    /\ drops' = drop_array(drops, live[i])
    /\ live' = Without({i})
    /\ last' = NoCall
    /\ prev' = NoCall
    /\ UNCHANGED <<cat, scrubs, created, nops, status>>

\* A truncate call of the T: Drop impl whose drop_in_place finalizes an
\* element for the second time and dies there.
TruncateAbort(op, i, L) ==
    /\ status = "running"
    /\ nops < MaxOps
    /\ implements_Drop(cat)
    /\ LET s == IF op = "truncate_start" THEN truncate_start_slice(live[i], L)
                                         ELSE truncate_end_slice(live[i], L)
       IN  /\ Refinalized(drops, live[i], s.lo, s.hi) # {}
           /\ drops' = drop_in_place_abort(drops, live[i], s.lo, s.hi)
    /\ status' = "aborted"
    /\ live' = Without({i})
    /\ last' = [op |-> op, self |-> live[i], arg |-> <<>>, L |-> L,
                result |-> <<>>, before |-> drops, path |-> "abort"]
    /\ prev' = NoCall
    /\ nops' = nops + 1
    /\ UNCHANGED <<cat, scrubs, created>>

\* live[i] goes out of scope, its drop glue finalizes an element for the
\* second time and dies there.
ScopeExitAbort(i) ==
    /\ status = "running"
    /\ needs_drop(cat)
    /\ Refinalized(drops, live[i], 0, Len(live[i])) # {}
    /\ drops' = drop_in_place_abort(drops, live[i], 0, Len(live[i]))
    /\ status' = "aborted"
    /\ live' = Without({i})
    /\ last' = NoCall
    /\ prev' = NoCall
    /\ UNCHANGED <<cat, scrubs, created, nops>>

Next ==
    \/ \E n \in 0..MaxElems : NewArray(n)
    \/ \E op \in {"concat", "concat_back"} : \E i, j \in 1..Len(live) : Concat(op, i, j)
    \/ \E op \in {"append", "append_back"} : \E i \in 1..Len(live) : AppendElem(op, i)
    \/ \E op \in TruncateOps : \E i \in 1..Len(live) :
          \E L \in 0..Len(live[i]) : Truncate(op, i, L)
    \/ \E i \in 1..Len(live) : ScopeExit(i)
    \/ \E op \in TruncateOps : \E i \in 1..Len(live) :
          \E L \in 0..Len(live[i]) : TruncateAbort(op, i, L)
    \/ \E i \in 1..Len(live) : ScopeExitAbort(i)

Spec == Init /\ [][Next]_vars

\* live[i].truncate_start::<L>() or live[i].truncate_end::<L>() of the T: Drop
\* impl, where the finalizer of live[i][p + 1] panics
TruncatePanic(op, i, L, p, again) ==
    /\ status = "running"
    /\ nops < MaxOps
    /\ implements_Drop(cat)
    /\ LET s == IF op = "truncate_start" THEN truncate_start_slice(live[i], L)
                                         ELSE truncate_end_slice(live[i], L)
       IN  s.lo <= p /\ p < s.hi
    /\ LET r == IF op = "truncate_start"
                THEN truncate_start_drop_unwind(live[i], L, p, again, drops)
                ELSE truncate_end_drop_unwind(live[i], L, p, again, drops)
       IN  /\ drops' = r.drops
           /\ status' = IF r.aborted THEN "aborted" ELSE "running"
    /\ live' = Without({i})
    /\ last' = [op |-> op, self |-> live[i], arg |-> <<>>, L |-> L,
                result |-> <<>>, before |-> drops, path |-> "unwind"]
    /\ prev' = NoCall
    /\ nops' = nops + 1
    /\ UNCHANGED <<cat, scrubs, created>>

NextPanic ==
    \/ Next
    \/ \E op \in TruncateOps : \E i \in 1..Len(live) : \E L \in 0..Len(live[i]) :
          \E p \in 0..(Len(live[i]) - 1) : \E again \in BOOLEAN :
             TruncatePanic(op, i, L, p, again)

SpecPanic == Init /\ [][NextPanic]_vars

\* ------------------------------------------------------------ properties

RECURSIVE SumTo(_, _)
SumTo(d, n) == IF n = 0 THEN 0 ELSE d[n] + SumTo(d, n - 1)

\* the total number of finalizer invocations recorded in d
Total(d) == SumTo(d, MaxElems)

\* the number of positions of arr that hold e
Occ(arr, e) == Cardinality({k \in 1..Len(arr) : arr[k] = e})

\* the last call was a truncate call that returned
TruncateReturned == last.op \in TruncateOps /\ last.path \in {"bulk", "elementwise"}

\* C1: on the T: Drop path, truncate_start::<L> and truncate_end::<L> each make
\* exactly L finalizer calls.
C1_TruncateFinalizesExactlyL ==
    (last.op \in TruncateOps /\ last.path = "elementwise")
        => Total(drops) = Total(last.before) + last.L

\* C2: every live array holds only initialized, not yet finalized elements, no
\* element is held twice, and a truncate call finalizes none of the elements
\* it returns.
C2_LiveElementsNotFinalized ==
    /\ \A i \in 1..Len(live) : \A k \in 1..Len(live[i]) :
          /\ live[i][k] \in Elems
          /\ drops[live[i][k]] = 0
    /\ \A i, j \in 1..Len(live) : \A k \in 1..Len(live[i]) : \A m \in 1..Len(live[j]) :
          live[i][k] = live[j][m] => (i = j /\ k = m)
    /\ TruncateReturned =>
          \A k \in 1..Len(last.result) :
             drops[last.result[k]] = last.before[last.result[k]]

\* what a Composer call must return
Composed(op, self, arg) ==
    CASE op = "concat" -> self \o arg
      [] op = "concat_back" -> arg \o self
      [] op = "append" -> Append(self, arg[1])
      [] op = "append_back" -> <<arg[1]>> \o self

DefaultBody(op, self, arg, d) ==
    CASE op = "concat" -> concat_default(self, arg, d)
      [] op = "concat_back" -> concat_back_default(self, arg, d)
      [] op = "append" -> append_default(self, arg[1], d)
      [] op = "append_back" -> append_back_default(self, arg[1], d)

CopyBody(op, self, arg, d) ==
    CASE op = "concat" -> concat_copy(self, arg, d)
      [] op = "concat_back" -> concat_back_copy(self, arg, d)
      [] op = "append" -> append_copy(self, arg[1], d)
      [] op = "append_back" -> append_back_copy(self, arg[1], d)

C4_TruncateContent ==
    TruncateReturned =>
        LET N == Len(last.self)
            L == last.L
            input == contents(last.self, last.before)
            sd == truncate_start_default(last.self, L, last.before)
            se == truncate_start_drop(last.self, L, last.before)
            ed == truncate_end_default(last.self, L, last.before)
            ee == truncate_end_drop(last.self, L, last.before)
        IN  /\ last.op = "truncate_start" =>
                  /\ contents(last.result, drops) = SubSeq(input, L + 1, N)
                  /\ contents(sd.result, sd.drops) = contents(se.result, se.drops)
            /\ last.op = "truncate_end" =>
                  /\ contents(last.result, drops) = SubSeq(input, 1, N - L)
                  /\ contents(ed.result, ed.drops) = contents(ee.result, ee.drops)
            /\ Len(last.result) = N - L

\* C5: a Composer call makes no finalizer call, every element of both
\* operands is in the result exactly once, and neither operand is a live
\* binding afterwards (only the result holds their elements).
C5_ComposeNoFinalizer ==
    last.op \in ComposeOps =>
        /\ drops = last.before
        /\ \A e \in Elems :
              /\ Occ(last.result, e) = Occ(last.self, e) + Occ(last.arg, e)
              /\ Occ(last.result, e) <= 1
        /\ live[Len(live)] = last.result
        /\ \A i \in 1..(Len(live) - 1) : \A e \in Elems :
              Occ(live[i], e) > 0 => Occ(last.result, e) = 0

C5_Witness ==
    /\ last.op = "append"
    /\ cat = "glue"
    /\ Len(last.self) = 2
    /\ Len(last.result) = 3
    /\ drops = last.before

\* C6: truncate_start::<len(A)> of concat(A, B) has exactly B's contents and
\* truncate_end::<len(B)> of concat(A, B) has exactly A's contents.
C6_RoundTrip ==
    (prev.op = "concat" /\ TruncateReturned /\ last.self = prev.result) =>
        /\ (last.op = "truncate_start" /\ last.L = Len(prev.self)) =>
              contents(last.result, drops) = contents(prev.arg, prev.before)
        /\ (last.op = "truncate_end" /\ last.L = Len(prev.arg)) =>
              contents(last.result, drops) = contents(prev.self, prev.before)

\* C7: truncate_start::<0> and truncate_end::<0> return the operand's
\* elements unchanged and make no finalizer call.
C7_TruncateZeroNoop ==
    (TruncateReturned /\ last.L = 0) =>
        /\ contents(last.result, drops) = contents(last.self, last.before)
        /\ drops = last.before

\* C8: once no array is live (and the process did not die), every element
\* instance ever created has been finalized exactly once.
C8_ExactlyOnce ==
    (status = "running" /\ Len(live) = 0 /\ needs_drop(cat)) =>
        \A e \in 1..created : drops[e] = 1

\* C9: truncate takes the element-wise path exactly for the element types
\* that need finalization.
C9_PathSelection ==
    TruncateReturned =>
        (last.path = "elementwise" <=> needs_drop(cat))

\* C10: when a finalizer panics inside truncate's drop_in_place, no element of
\* the operand is finalized more than once by the call.
C10_PanicNoDoubleFinalize ==
    last.path = "unwind" =>
        \A k \in 1..Len(last.self) :
           drops[last.self[k]] <= last.before[last.self[k]] + 1

====
